---- MODULE Spec2Model ----
(***************************************************************************)
(* Model of src/backend/websocket.rs: the WebSocket actor that decodes     *)
(* binary requests (login by credentials, login by session token, logout), *)
(* calls the token service and the database executor and sends back one    *)
(* binary response.  The token service (backend::token), the database      *)
(* executor (backend::database::executor) and the protocol crate are not   *)
(* part of the modelled file; they are modelled from their documented      *)
(* contract.                                                               *)
(***************************************************************************)
EXTENDS Integers, Sequences, FiniteSets, TLC

\* Bound: number of frames, over all connections, that decode as a Request.
MaxReqs == 3


\* The websocket connections (one WebSocket actor each) and the worker
\* threads their actors run on.
Conns == {1, 2}
Workers == {1, 2}

\* Strings a peer puts into the username and password fields.
Usernames == {"", "a"}
Passwords == {"", "a", "b"}

\* Frame kinds other than Binary and Close.
OtherKinds == {"Text", "Ping", "Pong"}

VARIABLES
    state,       \* state[c]: "Open" until context.stop(), then "Closed"
    pc,          \* pc[c]: "idle", or "waiting" inside .wait() on a database reply
    cur,         \* cur[c]: the request being handled while pc[c] = "waiting"
    call,        \* call[c]: the database message sent by c and its reply
    sessions,    \* database: tokens that have a live session record
    issued,      \* token service: issued[i] is the user of the i-th token
    known,       \* tokens a peer has received in a response
    worker,      \* worker[c]: the thread the actor of c runs on
    nreq,        \* number of frames, over all connections, that decoded as a Request
    last,        \* the handle() call that returned in the latest step (NoEntry: none did)
    superseded,  \* tokens replaced by a successful UpdateSession
    loggedOut    \* tokens removed by a successful DeleteSession

vars == <<state, pc, cur, call, sessions, issued, known, worker, nreq, last,
          superseded, loggedOut>>

----------------------------------------------------------------------------
\* Values

\* A token is <<user, serial>>; serial 0 was never issued by the token service.
NoToken == <<"", -1>>
Forged == <<"a", 0>>

NoReq == [type |-> "None", username |-> "", password |-> "", token |-> NoToken]

Credentials(u, p) == [type |-> "Credentials", username |-> u, password |-> p, token |-> NoToken]
LoginSession(t) == [type |-> "Session", username |-> "", password |-> "", token |-> t]
Logout(t) == [type |-> "Logout", username |-> "", password |-> "", token |-> t]

\* Result<Session, ResponseError> and Result<(), ResponseError>
Ok(t) == [ok |-> TRUE, token |-> t, err |-> "None"]
Err(e) == [ok |-> FALSE, token |-> NoToken, err |-> e]

\* Response::Login(result) and Response::Logout(result)
Response(variant, result) ==
    [variant |-> variant, ok |-> result.ok, token |-> result.token, err |-> result.err]
NoResp == [variant |-> "None", ok |-> FALSE, token |-> NoToken, err |-> "None"]

NoReply == [kind |-> "None", token |-> NoToken]
NoCall == [op |-> "None", old |-> NoToken, new |-> NoToken, status |-> "none",
           reply |-> NoReply]

\* Mutant: the session is created for another token than the one issued.
CreateSession_OtherToken(t) ==
    [op |-> "CreateSession", old |-> NoToken, new |-> Forged, status |-> "sent",
     reply |-> NoReply]

\* Mutant: the renewal stores the presented token again, not the renewed one.
UpdateSession_KeepOld(old, new) ==
    [op |-> "UpdateSession", old |-> old, new |-> old, status |-> "sent",
     reply |-> NoReply]

\* Mutant: the logout verifies the token first and sends no message for a
\* token the token service did not issue.
DeleteSession_Verified(t) ==
    IF t[2] \in 1..Len(issued) /\ issued[t[2]] = t[1]
    THEN [op |-> "DeleteSession", old |-> t, new |-> NoToken, status |-> "sent",
          reply |-> NoReply]
    ELSE NoCall

\* Mutant: the logout does not pass the token of the request to the store.
DeleteSession_NoToken(t) ==
    [op |-> "DeleteSession", old |-> NoToken, new |-> NoToken, status |-> "sent",
     reply |-> NoReply]

\* The messages sent to the database executor.
CreateSession(t) == [op |-> "CreateSession", old |-> NoToken, new |-> t, status |-> "sent",
                     reply |-> NoReply]
UpdateSession(old, new) == [op |-> "UpdateSession", old |-> old, new |-> new, status |-> "sent",
                            reply |-> NoReply]
DeleteSession(t) == [op |-> "DeleteSession", old |-> t, new |-> NoToken, status |-> "sent",
                     reply |-> NoReply]

NoCur == [req |-> NoReq, tokenCalls |-> 0]

----------------------------------------------------------------------------
\* Protocol codec (serde_cbor): a frame's bytes are modelled as the tuple of
\* the fields the encoder writes.

\* The tokens a peer can present: forged, or a token received in a response.
Presentable == {Forged} \cup known

\* The bytes a peer can send in a binary frame: encoded requests and garbage.
Frames ==
    {<<"Login", "Credentials", u, p>> : u \in Usernames, p \in Passwords}
    \cup {<<"Login", "Session", t>> : t \in Presentable}
    \cup {<<"Logout", t>> : t \in Presentable}
    \cup {<<"Garbage">>, <<"Login">>}

\* from_slice(data): Ok(request) or Err(decode error)
from_slice(data) ==
    IF Len(data) = 4 /\ data[1] = "Login" /\ data[2] = "Credentials"
    THEN [ok |-> TRUE, req |-> Credentials(data[3], data[4])]
    ELSE IF Len(data) = 3 /\ data[1] = "Login" /\ data[2] = "Session"
    THEN [ok |-> TRUE, req |-> LoginSession(data[3])]
    ELSE IF Len(data) = 2 /\ data[1] = "Logout"
    THEN [ok |-> TRUE, req |-> Logout(data[2])]
    ELSE [ok |-> FALSE, req |-> NoReq]

----------------------------------------------------------------------------
\* Token service (backend::token::Token)

\* The token carries a signature of the token service.
Authentic(t) == t[2] \in 1..Len(issued) /\ issued[t[2]] = t[1]

\* The token Token::create / Token::verify hands out next for user u.
FreshToken(u) == <<u, Len(issued) + 1>>

\* Token::create(username): Ok(token) unless issuing fails (tokOk = FALSE).
TokenCreate(u, tokOk) ==
    IF tokOk THEN Ok(FreshToken(u)) ELSE Err("Token")

\* Token::verify(token): Ok(renewed token for the same user) if the token is
\* authentic and accepted; a token that has expired by now, or a failure to
\* issue the renewed token, is tokOk = FALSE.
TokenVerify(t, tokOk) ==
    IF Authentic(t) /\ tokOk THEN Ok(FreshToken(t[1])) ELSE Err("Token")

----------------------------------------------------------------------------
\* Database executor (backend::database::executor)

\* The reply of the executor to message m when it handles it without fault.
DbReply(m) ==
    IF m.op = "CreateSession" THEN [kind |-> "Ok", token |-> m.new]
    ELSE IF m.op = "UpdateSession" /\ m.old \in sessions THEN [kind |-> "Ok", token |-> m.new]
    ELSE IF m.op = "DeleteSession" /\ m.old \in sessions THEN [kind |-> "Ok", token |-> NoToken]
    ELSE [kind |-> "StoreErr", token |-> NoToken]

\* The session records after the executor handled m without fault.
DbEffect(m) ==
    IF m.op = "CreateSession" THEN sessions \cup {m.new}
    ELSE IF m.op = "UpdateSession" /\ m.old \in sessions THEN (sessions \ {m.old}) \cup {m.new}
    ELSE IF m.op = "DeleteSession" /\ m.old \in sessions THEN sessions \ {m.old}
    ELSE sessions

\* From<store error> for ResponseError
StoreErrorToResponseError == "Database"

----------------------------------------------------------------------------
\* WebSocket

\* Mutant: the credentials are not validated before the token is issued.
InvalidCredentials_Never(username, password) == FALSE

\* Mutant: the comparison of username and password is left out.
InvalidCredentials_NoCompare(username, password) ==
    username = "" \/ password = ""

\* if username.is_empty() || password.is_empty() || username != password
InvalidCredentials(username, password) ==
    username = "" \/ password = "" \/ username # password

\* Mutant: every result is wrapped into Response::Login.
ResponseVariant_AlwaysLogin(req) == "Login"

\* The outer variant handle_request wraps the result into.
ResponseVariant(req) == IF req.type = "Logout" THEN "Logout" ELSE "Login"

\* Mutant: the renewal does not return on a token the token service rejects
\* and sends UpdateSession all the same.
Dispatch_VerifyIgnored(req, tokOk) ==
    IF req.type = "Credentials" THEN
        IF InvalidCredentials(req.username, req.password)
        THEN [done |-> TRUE, result |-> Err("WrongUsernamePassword"), msg |-> NoCall,
              tokenCalls |-> 0]
        ELSE LET t == TokenCreate(req.username, tokOk) IN
             IF t.ok
             THEN [done |-> FALSE, result |-> Err("None"), msg |-> CreateSession(t.token),
                   tokenCalls |-> 1]
             ELSE [done |-> TRUE, result |-> Err(t.err), msg |-> NoCall, tokenCalls |-> 1]
    ELSE IF req.type = "Session" THEN
        [done |-> FALSE, result |-> Err("None"),
         msg |-> UpdateSession(req.token, FreshToken(req.token[1])), tokenCalls |-> 1]
    ELSE [done |-> FALSE, result |-> Err("None"), msg |-> DeleteSession(req.token),
          tokenCalls |-> 0]

\* handle_request_* up to the point where the database message is sent:
\* either the result is already decided (an early return), or a message is
\* sent and the handler blocks in .wait().
Dispatch(req, tokOk) ==
    IF req.type = "Credentials" THEN
        IF InvalidCredentials(req.username, req.password)
        THEN [done |-> TRUE, result |-> Err("WrongUsernamePassword"), msg |-> NoCall,
              tokenCalls |-> 0]
        ELSE LET t == TokenCreate(req.username, tokOk) IN
             IF t.ok
             THEN [done |-> FALSE, result |-> Err("None"), msg |-> CreateSession(t.token),
                   tokenCalls |-> 1]
             ELSE [done |-> TRUE, result |-> Err(t.err), msg |-> NoCall, tokenCalls |-> 1]
    ELSE IF req.type = "Session" THEN
        LET t == TokenVerify(req.token, tokOk) IN
        IF t.ok
        THEN [done |-> FALSE, result |-> Err("None"), msg |-> UpdateSession(req.token, t.token),
              tokenCalls |-> 1]
        ELSE [done |-> TRUE, result |-> Err(t.err), msg |-> NoCall, tokenCalls |-> 1]
    ELSE [done |-> FALSE, result |-> Err("None"), msg |-> DeleteSession(req.token),
          tokenCalls |-> 0]

\* Mutant: a failure of the reply channel is reported as a token error.
WaitResult_MailboxAsToken(reply) ==
    IF reply.kind = "MailboxErr" THEN Err("Token")
    ELSE IF reply.kind = "StoreErr" THEN Err(StoreErrorToResponseError)
    ELSE Ok(reply.token)

\* .wait().map_err(|_| ResponseError::Database)?? applied to the reply
WaitResult(reply) ==
    IF reply.kind = "MailboxErr" THEN Err("Database")
    ELSE IF reply.kind = "StoreErr" THEN Err(StoreErrorToResponseError)
    ELSE Ok(reply.token)

\* Mutant: when the serializer fails a substitute frame is written.
Send_Substitute(encOk) == 1

\* send(): context.binary(to_vec_packed(&response)?): the number of frames
\* written, given whether the serializer succeeds.
Send(encOk) == IF encOk THEN 1 ELSE 0

\* Mutant: an Err returned by handle_request ends the whole process.
AfterError_Fatal(c) == [d \in Conns |-> "Closed"]

\* Mutant: an Err returned by handle_request stops the actor.
AfterError_Stop(c) == [state EXCEPT ![c] = "Closed"]

\* handle(): an Err returned by handle_request (a decode error, a send error)
\* is logged with warn!; the connection state after it.
AfterError(c) == state

\* Mutant: the close frame does not stop the actor.
Stop_Forgotten(c) == state

\* context.stop(): the connection state after it.
Stop(c) == [state EXCEPT ![c] = "Closed"]

\* Mutant: waiting for the database reply does not block the thread.
WorkerFree_Always(c) == TRUE

\* The thread of c is not blocked in a .wait() of an actor running on it.
WorkerFree(c) == \A d \in Conns : worker[d] = worker[c] => pc[d] = "idle"

\* Mutant: the database reply is not waited for, frames are handled meanwhile.
CanHandle_NoWait(c) == state[c] = "Open"

\* The handler of c can be entered: the actor runs, and its thread is not
\* blocked in a .wait() of this or another actor on the same worker.
CanHandle(c) == state[c] = "Open" /\ WorkerFree(c)

\* The record kept of a handle() call on c when it returns: the frame kind,
\* the request it decoded to, the response built, the number of send
\* attempts, whether the serializer succeeded, the number of frames written,
\* the number of token service calls and the database message with its reply;
\* for a close frame, after is the database call of the request of c whose
\* handler returned in the step just before ("None": there was none).
Entry(c, kind, decoded, req, resp, sends, encOk, frames, tokenCalls, m) ==
    [conn |-> c, kind |-> kind, decoded |-> decoded, req |-> req, resp |-> resp,
     sends |-> sends, encoded |-> encOk, frames |-> frames, tokenCalls |-> tokenCalls,
     call |-> m, after |-> "None"]

NoEntry ==
    [conn |-> 0, kind |-> "None", decoded |-> FALSE, req |-> NoReq, resp |-> NoResp,
     sends |-> 0, encoded |-> FALSE, frames |-> 0, tokenCalls |-> 0, call |-> NoCall,
     after |-> "None"]

----------------------------------------------------------------------------
Init ==
    /\ state = [c \in Conns |-> "Open"]
    /\ pc = [c \in Conns |-> "idle"]
    /\ cur = [c \in Conns |-> NoCur]
    /\ call = [c \in Conns |-> NoCall]
    /\ sessions = {}
    /\ issued = <<>>
    /\ known = {}
    /\ worker \in {w \in [Conns -> Workers] : w[1] = 1}
    /\ nreq = 0
    /\ last = NoEntry
    /\ superseded = {}
    /\ loggedOut = {}

\* Mutant: the handler remembers whether its connection has logged in and
\* refuses a renewal or a logout on connection 2, which has not.
Respond_OwnSessionOnly(c, req, result, tokenCalls, m, encOk) ==
    LET refused == c = 2 /\ req.type # "Credentials"
        response == Response(IF req.type = "Logout" THEN "Logout" ELSE "Login",
                             IF refused THEN Err("WrongUsernamePassword") ELSE result)
        frames == IF encOk THEN 1 ELSE 0
    IN /\ known' = IF frames > 0 /\ response.ok /\ response.variant = "Login"
                   THEN known \cup {response.token} ELSE known
       /\ state' = state
       /\ last' = Entry(c, "Binary", TRUE, req, response, 1, encOk, frames, tokenCalls, m)

\* The rest of handle_request once the result is known: wrap it, send it,
\* return to handle(), which only logs a send error.
Respond(c, req, result, tokenCalls, m, encOk) ==
    LET response == Response(ResponseVariant(req), result)
        frames == Send(encOk)
    IN /\ known' = IF frames > 0 /\ response.ok /\ response.variant = "Login"
                   THEN known \cup {response.token} ELSE known
       /\ state' = IF encOk THEN state ELSE AfterError(c)
       /\ last' = Entry(c, "Binary", TRUE, req, response, 1, encOk, frames, tokenCalls, m)

\* handle(Message::Binary(bin)): decode, dispatch, and either answer at once
\* or send the database message and block in .wait().
HandleBinary(c, data, tokOk, encOk) ==
    /\ CanHandle(c)
    /\ LET d == from_slice(data) IN
       IF ~d.ok
       THEN /\ state' = AfterError(c)
            /\ last' = Entry(c, "Binary", FALSE, NoReq, NoResp, 0, FALSE, 0, 0, NoCall)
            /\ UNCHANGED <<pc, cur, call, issued, known, nreq>>
       ELSE LET r == Dispatch(d.req, tokOk) IN
            /\ nreq < MaxReqs
            /\ nreq' = nreq + 1
            /\ issued' = IF r.msg.new # NoToken THEN Append(issued, r.msg.new[1]) ELSE issued
            /\ IF r.done
               THEN /\ Respond(c, d.req, r.result, r.tokenCalls, NoCall, encOk)
                    /\ UNCHANGED <<pc, cur, call>>
               ELSE /\ pc' = [pc EXCEPT ![c] = "waiting"]
                    /\ cur' = [cur EXCEPT ![c] = [req |-> d.req, tokenCalls |-> r.tokenCalls]]
                    /\ call' = [call EXCEPT ![c] = r.msg]
                    /\ last' = NoEntry
                    /\ UNCHANGED <<state, known>>
    /\ UNCHANGED <<sessions, worker, superseded, loggedOut>>

\* handle(Message::Close(reason)): context.stop()
HandleClose(c) ==
    /\ CanHandle(c)
    /\ state' = Stop(c)
    /\ last' = [Entry(c, "Close", FALSE, NoReq, NoResp, 0, FALSE, 0, 0, NoCall)
                   EXCEPT !.after = IF last.conn = c THEN last.call.op ELSE "None"]
    /\ UNCHANGED <<pc, cur, call, sessions, issued, known, worker, nreq,
                   superseded, loggedOut>>

\* Mutant: a frame that is neither binary nor close stops the actor.
HandleOther_Stops(c, kind) ==
    /\ CanHandle(c)
    /\ state' = [state EXCEPT ![c] = "Closed"]
    /\ last' = Entry(c, kind, FALSE, NoReq, NoResp, 0, FALSE, 0, 0, NoCall)
    /\ UNCHANGED <<pc, cur, call, sessions, issued, known, worker, nreq,
                   superseded, loggedOut>>

\* handle(e): any other frame is logged and ignored
HandleOther(c, kind) ==
    /\ CanHandle(c)
    /\ last' = Entry(c, kind, FALSE, NoReq, NoResp, 0, FALSE, 0, 0, NoCall)
    /\ UNCHANGED <<state, pc, cur, call, sessions, issued, known, worker, nreq,
                   superseded, loggedOut>>

\* The database executor takes the message of c from its mailbox, handles
\* it (or fails with a store error) and replies.
DbHandle(c, fault) ==
    /\ call[c].status = "sent"
    /\ LET m == call[c]
           reply == IF fault THEN [kind |-> "StoreErr", token |-> NoToken] ELSE DbReply(m)
       IN /\ sessions' = IF fault THEN sessions ELSE DbEffect(m)
          /\ call' = [call EXCEPT ![c] = [m EXCEPT !.status = "replied", !.reply = reply]]
          /\ superseded' = IF m.op = "UpdateSession" /\ reply.kind = "Ok"
                           THEN superseded \cup {m.old} ELSE superseded
          /\ loggedOut' = IF m.op = "DeleteSession" /\ reply.kind = "Ok"
                          THEN loggedOut \cup {m.old} ELSE loggedOut
    /\ last' = NoEntry
    /\ UNCHANGED <<state, pc, cur, issued, known, worker, nreq>>

\* The message never reaches the executor: send(..) resolves to a MailboxError.
MailboxFail(c) ==
    /\ call[c].status = "sent"
    /\ call' = [call EXCEPT ![c] =
           [@ EXCEPT !.status = "replied",
                     !.reply = [kind |-> "MailboxErr", token |-> NoToken]]]
    /\ last' = NoEntry
    /\ UNCHANGED <<state, pc, cur, sessions, issued, known, worker, nreq,
                   superseded, loggedOut>>

\* Mutant: a response that could not be sent rolls the store mutation back.
WaitReturn_Rollback(c, encOk) ==
    /\ pc[c] = "waiting"
    /\ call[c].status = "replied"
    /\ Respond(c, cur[c].req, WaitResult(call[c].reply), cur[c].tokenCalls, call[c], encOk)
    /\ pc' = [pc EXCEPT ![c] = "idle"]
    /\ cur' = [cur EXCEPT ![c] = NoCur]
    /\ call' = [call EXCEPT ![c] = NoCall]
    /\ sessions' = IF encOk THEN sessions ELSE sessions \ {call[c].new}
    /\ UNCHANGED <<issued, worker, nreq, superseded, loggedOut>>

\* Mutant: .wait() gives up on a reply that has not arrived and the request
\* fails with Database.
WaitReturn_Timeout(c, encOk) ==
    /\ pc[c] = "waiting"
    /\ Respond(c, cur[c].req,
               IF call[c].status = "replied" THEN WaitResult(call[c].reply)
               ELSE Err("Database"),
               cur[c].tokenCalls, call[c], encOk)
    /\ pc' = [pc EXCEPT ![c] = "idle"]
    /\ cur' = [cur EXCEPT ![c] = NoCur]
    /\ call' = [call EXCEPT ![c] = NoCall]
    /\ UNCHANGED <<sessions, issued, worker, nreq, superseded, loggedOut>>

\* .wait() returns with the reply: the handler maps it to a result, sends the
\* response and returns.
WaitReturn(c, encOk) ==
    /\ pc[c] = "waiting"
    /\ call[c].status = "replied"
    /\ Respond(c, cur[c].req, WaitResult(call[c].reply), cur[c].tokenCalls, call[c], encOk)
    /\ pc' = [pc EXCEPT ![c] = "idle"]
    /\ cur' = [cur EXCEPT ![c] = NoCur]
    /\ call' = [call EXCEPT ![c] = NoCall]
    /\ UNCHANGED <<sessions, issued, worker, nreq, superseded, loggedOut>>

Next ==
    \/ \E c \in Conns, data \in Frames, tokOk \in BOOLEAN, encOk \in BOOLEAN :
           HandleBinary(c, data, tokOk, encOk)
    \/ \E c \in Conns : HandleClose(c)
    \/ \E c \in Conns, kind \in OtherKinds : HandleOther(c, kind)
    \/ \E c \in Conns, fault \in BOOLEAN : DbHandle(c, fault)
    \/ \E c \in Conns : MailboxFail(c)
    \/ \E c \in Conns, encOk \in BOOLEAN : WaitReturn(c, encOk)

Spec == Init /\ [][Next]_vars

\* The database call of c receives a reply: from the executor, or an error
\* from the mailbox.
Reply(c) == (\E fault \in BOOLEAN : DbHandle(c, fault)) \/ MailboxFail(c)

\* Every database call receives a reply, and a handler whose reply has
\* arrived goes on.
Fairness ==
    \A c \in Conns :
        /\ WF_vars(Reply(c))
        /\ WF_vars(\E encOk \in BOOLEAN : WaitReturn(c, encOk))

FairSpec == Init /\ [][Next]_vars /\ Fairness

\* The frames of a peer that never logs in with credentials.
SessionFrames == {data \in Frames : from_slice(data).req.type # "Credentials"}

\* The same handlers with sessions created on connection 1 only: the peer of
\* connection 2 sends renewals, logouts and other frames, never credentials.
NextCross ==
    \/ \E data \in Frames, tokOk \in BOOLEAN, encOk \in BOOLEAN :
           HandleBinary(1, data, tokOk, encOk)
    \/ \E data \in SessionFrames, tokOk \in BOOLEAN, encOk \in BOOLEAN :
           HandleBinary(2, data, tokOk, encOk)
    \/ \E c \in Conns : HandleClose(c)
    \/ \E c \in Conns, kind \in OtherKinds : HandleOther(c, kind)
    \/ \E c \in Conns, fault \in BOOLEAN : DbHandle(c, fault)
    \/ \E c \in Conns : MailboxFail(c)
    \/ \E c \in Conns, encOk \in BOOLEAN : WaitReturn(c, encOk)

SpecCross == Init /\ [][NextCross]_vars

----------------------------------------------------------------------------
\* Claims.  A claim about what a handle() call did is stated about last, the
\* record of the call that returned in the latest step; every such call is
\* the latest one in the state it returns into.

\* The outer variant a response to req has to carry.
WantedVariant(req) == IF req.type = "Logout" THEN "Logout" ELSE "Login"

\* C1 as stated: every frame that decodes as a Request makes the handler
\* emit exactly one Response frame, of the outer variant of the Request.
C1_Original ==
    last.decoded => (last.frames = 1 /\ last.resp.variant = WantedVariant(last.req))

\* C1: every frame that decodes as a Request makes the handler build exactly
\* one Response, of the outer variant of the Request and holding Ok or a
\* typed error, and attempt exactly one send; the Response is emitted as
\* exactly one frame unless serializing it fails, and then none is emitted.
C1_OneResponse ==
    last.decoded =>
        /\ last.req.type \in {"Credentials", "Session", "Logout"}
        /\ last.resp.variant = WantedVariant(last.req)
        /\ last.resp.ok \/ last.resp.err \in {"WrongUsernamePassword", "Token", "Database"}
        /\ last.sends = 1
        /\ last.frames = (IF last.encoded THEN 1 ELSE 0)

\* A Logout request was answered with an emitted Response::Logout(Ok(())).
C1_Witness ==
    /\ last.decoded /\ last.req.type = "Logout"
    /\ last.frames = 1 /\ last.resp.variant = "Logout" /\ last.resp.ok

\* C2 as stated: on a connection the i-th response frame answers the i-th
\* decoded request: every handle() call for a decoded request writes exactly
\* one frame (no dropped replies) and no other call writes a frame.
C2_Original ==
    last.kind # "None" => last.frames = (IF last.decoded THEN 1 ELSE 0)

\* C2: on a connection responses are emitted in the order of their requests:
\* a frame is written only by the handle() call of a decoded request, at
\* most one per call, and it is the response to that request; while a call
\* waits for the database no other frame of the connection is taken, and the
\* call that returns is the one that waited; a reply is dropped only when
\* serializing it fails.
C2_InOrder ==
    [][\A c \in Conns :
        /\ pc[c] = "waiting" =>
              /\ pc'[c] = "waiting" => (cur'[c] = cur[c] /\ call'[c].op = call[c].op)
              /\ last'.conn = c =>
                    (pc'[c] = "idle" /\ last'.decoded /\ last'.req = cur[c].req)
        /\ last'.conn = c =>
              /\ last'.frames \in {0, 1}
              /\ last'.frames = 1 =>
                    (last'.decoded /\ last'.sends = 1
                     /\ last'.resp.variant = WantedVariant(last'.req))
              /\ last'.decoded => (last'.frames = 1 <=> last'.encoded)
              /\ pc'[c] = "idle"
      ]_vars

\* A request that waited for the database was answered while the other
\* connection was waiting for its own reply.
C2_Witness ==
    /\ last.conn = 1 /\ last.frames = 1 /\ last.call.op # "None"
    /\ pc[2] = "waiting"

\* C3: a Login with Credentials whose username is empty, whose password is
\* empty, or whose two fields differ is answered
\* Response::Login(Err(WrongUsernamePassword)), without a token service or
\* database call, whatever the sessions and tokens are.
C3_WrongCredentials ==
    (/\ last.decoded /\ last.req.type = "Credentials"
     /\ \/ last.req.username = ""
        \/ last.req.password = ""
        \/ last.req.username # last.req.password)
    => /\ last.resp = [variant |-> "Login", ok |-> FALSE, token |-> NoToken,
                       err |-> "WrongUsernamePassword"]
       /\ last.tokenCalls = 0
       /\ last.call = NoCall

\* Non-empty, different username and password were rejected while the
\* database held a live session.
C3_Witness ==
    /\ last.req = Credentials("a", "b")
    /\ last.resp.err = "WrongUsernamePassword"
    /\ sessions # {}

\* C4: a Login with Credentials whose username equals its password, both
\* non-empty, calls the token service once and is never answered
\* WrongUsernamePassword; the token issued for it is new and carries the
\* username; when the store handles CreateSession without fault it accepts it
\* and holds a live session for the token; and when the store accepted, the
\* response is Response::Login(Ok(session)) with exactly that token, whose
\* session is live when the response is written.
C4_ValidCredentials ==
    /\ [](\/ ~(/\ last.decoded /\ last.req.type = "Credentials"
               /\ last.req.username # "" /\ last.req.username = last.req.password)
          \/ /\ last.tokenCalls = 1
             /\ last.resp.variant = "Login"
             /\ last.resp.err # "WrongUsernamePassword"
             /\ last.resp.ok <=> last.call.reply.kind = "Ok"
             /\ last.call.reply.kind = "Ok" =>
                   /\ last.call.op = "CreateSession"
                   /\ last.resp.token = last.call.new
                   /\ last.resp.token[1] = last.req.username
                   /\ Authentic(last.resp.token)
                   /\ last.resp.token \in sessions
                   /\ last.resp.token \notin superseded \cup loggedOut)
    /\ [][\A c \in Conns :
            /\ (call[c].op = "None" /\ call'[c].op = "CreateSession") =>
                  /\ call'[c].new \notin sessions \cup known \cup {Forged}
                  /\ ~Authentic(call'[c].new)
                  /\ Len(issued') = Len(issued) + 1
                  /\ call'[c].new = <<issued'[Len(issued')], Len(issued')>>
                  /\ call'[c].new[1] = cur'[c].req.username
            /\ (DbHandle(c, FALSE) /\ call[c].op = "CreateSession") =>
                  /\ call'[c].reply = [kind |-> "Ok", token |-> call[c].new]
                  /\ sessions' = sessions \cup {call[c].new}
       ]_vars

\* A second login with the same credentials got its own token while the
\* session of the first login was live.
C4_Witness ==
    /\ last.req = Credentials("a", "a") /\ last.resp.ok
    /\ Cardinality(sessions) = 2

\* C5: a renewal with the live token t0 that the token service verifies and
\* the store handles without fault succeeds with a new token t1, and so does
\* a following renewal with t1; the store replaces the presented token by the
\* renewed one, so that a superseded token is never live again and only the
\* latest token of the session is; a renewal that presents a superseded token
\* fails.
C5_RenewalChain ==
    /\ [](superseded \cap sessions = {})
    /\ []((last.decoded /\ last.req.type = "Session") =>
            /\ last.resp.variant = "Login"
            /\ last.resp.ok <=> last.call.reply.kind = "Ok"
            /\ last.resp.ok =>
                  /\ last.call.op = "UpdateSession"
                  /\ last.call.old = last.req.token
                  /\ last.resp.token = last.call.new
                  /\ last.resp.token # last.req.token
                  /\ last.resp.token[1] = last.req.token[1]
                  /\ last.req.token \in superseded
                  /\ last.resp.token \in sessions)
    /\ [][\A c \in Conns :
            (call[c].op = "UpdateSession" /\ call[c].status = "sent"
             /\ call'[c].status = "replied") =>
               /\ call[c].old = cur[c].req.token
               /\ (DbHandle(c, FALSE) /\ cur[c].req.token \in sessions) =>
                     /\ call'[c].reply = [kind |-> "Ok", token |-> call[c].new]
                     /\ sessions' = (sessions \ {cur[c].req.token}) \cup {call[c].new}
               /\ cur[c].req.token \in superseded =>
                     /\ call'[c].reply.kind # "Ok"
                     /\ sessions' = sessions
       ]_vars

\* The second renewal of a chain succeeded: t0 and t1 are superseded and the
\* token returned is the only live one.
C5_Witness ==
    /\ last.req.type = "Session" /\ last.resp.ok
    /\ Cardinality(superseded) = 2
    /\ sessions = {last.resp.token}

\* C6 as stated: a Logout answered Response::Logout(Ok(())) has removed the
\* session of its token, and every later renewal that presents the token of
\* a logged out session is answered Response::Login(Err(Database)).
C6_Original ==
    /\ (last.decoded /\ last.req.type = "Logout" /\ last.resp.ok) =>
          (last.req.token \in loggedOut /\ last.req.token \notin sessions)
    /\ (last.decoded /\ last.req.type = "Session" /\ last.req.token \in loggedOut) =>
          last.resp = [variant |-> "Login", ok |-> FALSE, token |-> NoToken,
                       err |-> "Database"]

\* C6: a Logout for a live session that the store handles without fault is
\* answered Response::Logout(Ok(())) and the store removes the session; a
\* logged out token is never live again; a later renewal that presents it, on
\* any connection, fails: with Err(Database) when the token service still
\* verifies the token (the store then has no live session for it), and with
\* the token error when the token service rejects it, as it does once the
\* token has expired.
C6_LogoutThenRenewal ==
    /\ [](loggedOut \cap sessions = {})
    /\ []((last.decoded /\ last.req.type = "Logout") =>
            /\ last.call.op = "DeleteSession" /\ last.call.old = last.req.token
            /\ last.resp.variant = "Logout"
            /\ last.resp.ok <=> last.call.reply.kind = "Ok"
            /\ last.resp.ok => last.req.token \in loggedOut)
    /\ []((last.decoded /\ last.req.type = "Session" /\ last.req.token \in loggedOut) =>
            /\ last.resp.variant = "Login" /\ ~last.resp.ok
            /\ last.call.op = "UpdateSession" => last.resp.err = "Database"
            /\ last.call.op = "None" => last.resp.err = "Token")
    /\ [][\A c \in Conns :
            (call[c].op = "DeleteSession" /\ call[c].status = "sent"
             /\ call'[c].status = "replied") =>
               /\ (DbHandle(c, FALSE) /\ cur[c].req.token \in sessions) =>
                     /\ call'[c].reply = [kind |-> "Ok", token |-> NoToken]
                     /\ sessions' = sessions \ {cur[c].req.token}
                     /\ cur[c].req.token \in loggedOut'
               /\ call'[c].reply.kind = "Ok" =>
                     (cur[c].req.token \in sessions /\ cur[c].req.token \notin sessions')
       ]_vars

\* A renewal with a token the token service verified was answered
\* Err(Database) because the session of the token had been logged out.
C6_Witness ==
    /\ last.req.type = "Session" /\ last.req.token \in loggedOut
    /\ last.call.op = "UpdateSession"
    /\ last.resp.err = "Database" /\ last.frames = 1

\* C7: a binary frame that does not decode as a Request writes no frame,
\* makes no send attempt, calls neither the token service nor the database,
\* and leaves the connection Open and every part of the state that decides
\* how later frames are handled as it was, so that a request sent afterwards
\* is handled as if the malformed frame had not arrived.
C7_Malformed ==
    /\ []((last.kind = "Binary" /\ ~last.decoded) =>
            /\ last.frames = 0 /\ last.sends = 0
            /\ last.tokenCalls = 0 /\ last.call = NoCall
            /\ last.resp = NoResp
            /\ state[last.conn] = "Open" /\ pc[last.conn] = "idle"
            /\ call[last.conn] = NoCall)
    /\ [][\A c \in Conns :
            (last'.conn = c /\ last'.kind = "Binary" /\ ~last'.decoded) =>
               /\ state[c] = "Open" /\ state'[c] = "Open"
               /\ UNCHANGED <<state, pc, cur, call, sessions, issued, known,
                              worker, nreq, superseded, loggedOut>>
       ]_vars

\* A malformed frame was handled on a connection while a session was live
\* and requests could still be taken.
C7_Witness ==
    /\ last.kind = "Binary" /\ ~last.decoded
    /\ sessions # {} /\ nreq < MaxReqs
    /\ state[last.conn] = "Open"

\* C8: every failure of a database call (the executor or its reply channel
\* failing, or the store reporting an error such as no live session for the
\* token) is answered Err(Database) inside the Response of the variant of
\* the request, and a database call that succeeded is answered Ok; so a
\* Logout is answered Response::Logout(Ok(())) on store success and
\* Response::Logout(Err(Database)) on store failure.
C8_DatabaseError ==
    /\ []((last.decoded /\ last.call.op # "None") =>
            /\ last.call.reply.kind \in {"Ok", "StoreErr", "MailboxErr"}
            /\ last.call.reply.kind \in {"StoreErr", "MailboxErr"} =>
                  last.resp = [variant |-> WantedVariant(last.req), ok |-> FALSE,
                               token |-> NoToken, err |-> "Database"]
            /\ last.call.reply.kind = "Ok" =>
                  (last.resp.ok /\ last.resp.variant = WantedVariant(last.req))
            /\ (last.req.type = "Logout" /\ last.call.reply.kind = "Ok") =>
                  last.resp = [variant |-> "Logout", ok |-> TRUE, token |-> NoToken,
                               err |-> "None"])
    /\ [][\A c \in Conns :
            (call[c].status = "sent" /\ call'[c].status = "replied"
             /\ call[c].op \in {"UpdateSession", "DeleteSession"}
             /\ call[c].old \notin sessions) =>
               (call'[c].reply.kind \in {"StoreErr", "MailboxErr"}
                /\ sessions' = sessions)
       ]_vars

\* A Logout whose reply channel failed was answered
\* Response::Logout(Err(Database)).
C8_Witness ==
    /\ last.req.type = "Logout" /\ last.call.reply.kind = "MailboxErr"
    /\ last.resp.variant = "Logout" /\ last.resp.err = "Database"
    /\ last.frames = 1

\* C9 as stated: after a request that ended in WrongUsernamePassword, a
\* token error or a Database error the connection is Open and the error
\* response has been written to the peer.
C9_Original ==
    (last.decoded /\ ~last.resp.ok) =>
        (state[last.conn] = "Open" /\ last.frames = 1)

\* C9: no request-level failure closes a connection: the handle() call of a
\* request that ended in WrongUsernamePassword, a token error or a Database
\* error changes the state of no connection and leaves its own Open, makes
\* one attempt to send the error response, which is written unless
\* serializing it fails, and leaves the handler idle with nothing kept of the
\* request, so that the next request is handled independently of it.
C9_FailureNotFatal ==
    /\ []((last.decoded /\ ~last.resp.ok) =>
            /\ last.resp.err \in {"WrongUsernamePassword", "Token", "Database"}
            /\ state[last.conn] = "Open"
            /\ pc[last.conn] = "idle"
            /\ cur[last.conn] = NoCur /\ call[last.conn] = NoCall
            /\ last.sends = 1
            /\ last.frames = (IF last.encoded THEN 1 ELSE 0))
    /\ [][(last'.decoded /\ ~last'.resp.ok) =>
             (state' = state /\ sessions' = sessions)
       ]_vars

\* A renewal that failed with a token error was answered, and the connection
\* is Open with requests still to come.
C9_Witness ==
    /\ last.decoded /\ last.resp.err = "Token" /\ last.frames = 1
    /\ state[last.conn] = "Open" /\ nreq < MaxReqs
    /\ sessions # {}

\* C10: a close frame takes the connection from Open to Closed, writes no
\* frame and makes no call; Closed is terminal, and for a closed connection
\* no handle() call starts or returns: no frame is written, no token service
\* or database call is made for it.
C10_Close ==
    /\ [](last.kind = "Close" =>
            /\ last.frames = 0 /\ last.sends = 0 /\ last.resp = NoResp
            /\ last.tokenCalls = 0 /\ last.call = NoCall
            /\ state[last.conn] = "Closed")
    /\ [](\A c \in Conns :
            state[c] = "Closed" => (pc[c] = "idle" /\ call[c] = NoCall /\ cur[c] = NoCur))
    /\ [][\A c \in Conns :
            /\ state[c] = "Closed" =>
                  /\ state'[c] = "Closed"
                  /\ last'.conn # c
                  /\ pc'[c] = pc[c] /\ call'[c] = call[c] /\ cur'[c] = cur[c]
            /\ (last'.conn = c /\ last'.kind = "Close") =>
                  /\ state[c] = "Open" /\ state'[c] = "Closed"
                  /\ UNCHANGED <<pc, cur, call, sessions, issued, known, nreq>>
       ]_vars

\* After connection 1 was closed, a request on connection 2 was answered.
C10_Witness ==
    /\ state[1] = "Closed"
    /\ last.conn = 2 /\ last.decoded /\ last.frames = 1

\* C11 as stated: while connection a waits for the reply to its database
\* call, a frame arriving on another open connection b whose handler is idle
\* can be handled.
C11_Original ==
    \A a, b \in Conns :
        (a # b /\ pc[a] = "waiting" /\ state[b] = "Open" /\ pc[b] = "idle")
            => CanHandle(b)

\* C12: the handler keeps nothing between requests, and the response to a
\* request is the result of its dispatch wrapped in the variant of the
\* request: decided by the payload and the token service alone when no
\* database message is sent, and by the reply to the message, which the
\* payload and the token service determine, otherwise; the store answers a
\* message by its session records only.  So connection 2, on which no
\* session was ever created, renews and logs out the sessions created on
\* connection 1.
C12_Stateless ==
    /\ [](\A c \in Conns : pc[c] = "idle" => (cur[c] = NoCur /\ call[c] = NoCall))
    /\ [](last.conn = 2 /\ last.decoded =>
            /\ last.req.type \in {"Session", "Logout"}
            /\ last.call.op # "None" => (last.resp.ok <=> last.call.reply.kind = "Ok"))
    /\ [][\A c \in Conns :
            /\ (last'.conn = c /\ last'.decoded) =>
                  IF pc[c] = "idle"
                  THEN \E tokOk \in BOOLEAN :
                          /\ Dispatch(last'.req, tokOk).done
                          /\ last'.resp = Response(WantedVariant(last'.req),
                                                   Dispatch(last'.req, tokOk).result)
                  ELSE /\ last'.req = cur[c].req
                       /\ last'.resp = Response(WantedVariant(cur[c].req),
                                                WaitResult(call[c].reply))
            /\ (call[c].op = "None" /\ call'[c].op # "None") =>
                  \E tokOk \in BOOLEAN : call'[c] = Dispatch(cur'[c].req, tokOk).msg
            /\ (call[c].status = "sent" /\ call'[c].status = "replied") =>
                  /\ call'[c].reply \in {DbReply(call[c]),
                                         [kind |-> "StoreErr", token |-> NoToken],
                                         [kind |-> "MailboxErr", token |-> NoToken]}
                  /\ DbHandle(c, FALSE) =>
                        (call'[c].reply = DbReply(call[c]) /\ sessions' = DbEffect(call[c]))
                  /\ call'[c].reply.kind = "Ok" => sessions' = DbEffect(call[c])
       ]_vars

\* Connection 2, which never logged in, renewed a session created on
\* connection 1 and was sent the new token.
C12_Witness ==
    /\ last.conn = 2 /\ last.req.type = "Session"
    /\ last.resp.ok /\ last.frames = 1
    /\ sessions = {last.resp.token}

\* C13: a renewal whose token the token service rejects (a token it never
\* issued, or one it no longer accepts) returns before any database message
\* is sent and is answered Response::Login(Err(e)) with e the token error,
\* never Database; the connection stays Open and the sessions are untouched.
C13_TokenRejected ==
    /\ []((last.decoded /\ last.req.type = "Session") =>
            /\ last.tokenCalls = 1
            /\ ~Authentic(last.req.token) => last.call = NoCall
            /\ last.call.op # "None" =>
                  (last.call.op = "UpdateSession" /\ Authentic(last.call.old))
            /\ last.call = NoCall =>
                  /\ last.resp = [variant |-> "Login", ok |-> FALSE, token |-> NoToken,
                                  err |-> "Token"]
                  /\ last.resp.err # "Database"
                  /\ last.sends = 1
                  /\ state[last.conn] = "Open")
    /\ [][(last'.decoded /\ last'.req.type = "Session" /\ last'.call = NoCall) =>
             /\ pc[last'.conn] = "idle" /\ pc' = pc
             /\ UNCHANGED <<state, call, sessions, issued, superseded, loggedOut>>
       ]_vars

\* A renewal with the token of a live session, which the token service no
\* longer accepted, was answered with the token error.
C13_Witness ==
    /\ last.req.type = "Session" /\ last.req.token \in sessions
    /\ last.call = NoCall
    /\ last.resp.err = "Token" /\ last.frames = 1

C15_OtherIgnored ==
    /\ [](last.kind \in OtherKinds =>
            /\ last.frames = 0 /\ last.sends = 0 /\ last.resp = NoResp
            /\ ~last.decoded /\ last.tokenCalls = 0 /\ last.call = NoCall
            /\ state[last.conn] = "Open" /\ pc[last.conn] = "idle")
    /\ [][(last'.kind \in OtherKinds) =>
             /\ state[last'.conn] = "Open"
             /\ UNCHANGED <<state, pc, cur, call, sessions, issued, known,
                            worker, nreq, superseded, loggedOut>>
       ]_vars

\* A pong frame was ignored on a connection while a session was live and
\* requests could still be taken.
C15_Witness ==
    /\ last.kind = "Pong"
    /\ sessions # {} /\ nreq < MaxReqs
    /\ state[last.conn] = "Open"

\* C16 as stated, second half: when every database call receives a reply,
\* every decoded request waiting for one eventually gets its response frame.
C16_Original ==
    \A c \in Conns :
        pc[c] = "waiting" ~> (last.conn = c /\ last.decoded /\ last.frames = 1)

\* C16: there is no timeout: as long as the reply to the database call of a
\* connection has not arrived, its handler stays in that call, no handle()
\* call of the connection returns or starts (no response, no request, no
\* close) and the connection stays Open; and when every database call
\* receives a reply, the handler of every request waiting for one eventually
\* returns, having built the response to that call and made its one attempt
\* to send it (the frame is written unless serializing it fails).
C16_NoTimeout ==
    /\ [](\A c \in Conns :
            call[c].status # "none" =>
               (pc[c] = "waiting" /\ state[c] = "Open" /\ ~CanHandle(c)))
    /\ [][\A c \in Conns :
            call[c].status = "sent" =>
               /\ last'.conn # c
               /\ state'[c] = "Open" /\ pc'[c] = "waiting" /\ cur'[c] = cur[c]
               /\ call'[c].status \in {"sent", "replied"}
               /\ call'[c].op = call[c].op
       ]_vars
    /\ \A c \in Conns :
          pc[c] = "waiting" ~>
             (/\ last.conn = c /\ last.decoded /\ last.call.status = "replied"
              /\ last.sends = 1 /\ pc[c] = "idle")

\* While the call of connection 1 had no reply yet, a request of connection
\* 2 that went through the database was answered.
C16_Witness ==
    /\ call[1].status = "sent"
    /\ last.conn = 2 /\ last.call.status = "replied" /\ last.frames = 1

\* C17: when serializing the response fails, nothing is written to the
\* peer, neither the response nor a substitute; no handle() call makes more
\* than one send attempt; the failure changes the state of no connection and
\* leaves its own Open with the handler idle, so that the next request is
\* handled as any other.
C17_SendFailure ==
    /\ [](last.sends \in {0, 1} /\ last.frames <= last.sends)
    /\ []((last.decoded /\ ~last.encoded) =>
            /\ last.sends = 1 /\ last.frames = 0
            /\ state[last.conn] = "Open" /\ pc[last.conn] = "idle"
            /\ cur[last.conn] = NoCur /\ call[last.conn] = NoCall)
    /\ [][(last'.decoded /\ ~last'.encoded) =>
             (state' = state /\ known' = known /\ sessions' = sessions)
       ]_vars

\* The response to a login with wrong credentials could not be serialized;
\* the connection is Open and requests can still be taken.
C17_Witness ==
    /\ last.decoded /\ ~last.encoded /\ last.frames = 0
    /\ last.resp.err = "WrongUsernamePassword"
    /\ state[last.conn] = "Open" /\ nreq < MaxReqs

\* C18: a database message is sent only after every earlier step of the
\* request succeeded: CreateSession only for valid credentials and with the
\* token just issued, UpdateSession only for a token the token service
\* verified; a login rejected by the validation calls neither the token
\* service nor the database, a login whose token could not be issued and a
\* renewal whose token was rejected send no message; and a request that
\* sent no message leaves the sessions as they were.
C18_CallAfterChecks ==
    /\ []((last.decoded /\ last.req.type = "Credentials") =>
            IF last.req.username = "" \/ last.req.password = ""
               \/ last.req.username # last.req.password
            THEN last.tokenCalls = 0 /\ last.call = NoCall
            ELSE /\ last.tokenCalls = 1
                 /\ last.call = NoCall =>
                       (~last.resp.ok /\ last.resp.err = "Token")
                 /\ last.call.op # "None" => last.call.op = "CreateSession")
    /\ []((last.decoded /\ last.req.type = "Session" /\ last.call = NoCall) =>
            (last.tokenCalls = 1 /\ ~last.resp.ok /\ last.resp.err = "Token"))
    /\ [][\A c \in Conns :
            /\ (call[c].op = "None" /\ call'[c].op = "CreateSession") =>
                  /\ cur'[c].req.type = "Credentials"
                  /\ cur'[c].req.username # ""
                  /\ cur'[c].req.username = cur'[c].req.password
                  /\ cur'[c].tokenCalls = 1
                  /\ call'[c].new = <<cur'[c].req.username, Len(issued')>>
            /\ (call[c].op = "None" /\ call'[c].op = "UpdateSession") =>
                  /\ cur'[c].req.type = "Session"
                  /\ Authentic(cur'[c].req.token)
                  /\ cur'[c].tokenCalls = 1
                  /\ call'[c].old = cur'[c].req.token
            /\ (last'.conn = c /\ last'.decoded /\ last'.call = NoCall) =>
                  /\ pc[c] = "idle"
                  /\ UNCHANGED <<sessions, call, issued, superseded, loggedOut>>
       ]_vars

\* A login with valid credentials whose token could not be issued was
\* answered without a database message, the sessions untouched.
C18_Witness ==
    /\ last.req = Credentials("a", "a")
    /\ last.tokenCalls = 1 /\ last.call = NoCall
    /\ last.resp.err = "Token"
    /\ sessions # {}

\* C19: a Logout calls the token service never and sends exactly one
\* DeleteSession carrying the token as the peer supplied it, also for a
\* token the token service never issued; its result is Ok(()) exactly when
\* the store replied Ok, which it does exactly when it deleted the live
\* session of that token.
C19_LogoutNoVerify ==
    /\ []((last.decoded /\ last.req.type = "Logout") =>
            /\ last.tokenCalls = 0
            /\ last.call.op = "DeleteSession" /\ last.call.old = last.req.token
            /\ last.call.new = NoToken
            /\ last.resp.variant = "Logout"
            /\ last.resp.ok <=> last.call.reply.kind = "Ok"
            /\ last.resp.ok => last.resp.token = NoToken)
    /\ [][\A c \in Conns :
            /\ (pc[c] = "idle" /\ cur'[c].req.type = "Logout") =>
                  /\ pc'[c] = "waiting"
                  /\ call'[c] = [op |-> "DeleteSession", old |-> cur'[c].req.token,
                                 new |-> NoToken, status |-> "sent", reply |-> NoReply]
                  /\ cur'[c].tokenCalls = 0
                  /\ issued' = issued
            /\ (call[c].op = "DeleteSession" /\ call[c].status = "sent"
                /\ call'[c].status = "replied") =>
                  /\ call'[c].reply.kind = "Ok" <=>
                        (call[c].old \in sessions /\ call[c].old \notin sessions')
                  /\ call'[c].reply.kind # "Ok" => sessions' = sessions
                  /\ (DbHandle(c, FALSE) /\ call[c].old \in sessions) =>
                        call'[c].reply.kind = "Ok"
       ]_vars

\* A Logout with a token the token service never issued went to the store
\* all the same and was answered with the store's error.
C19_Witness ==
    /\ last.req = Logout(Forged) /\ last.tokenCalls = 0
    /\ last.call.op = "DeleteSession" /\ last.call.reply.kind = "StoreErr"
    /\ last.resp.err = "Database"

\* C20: the store has handled the message of a request before its response
\* is built and sent, and nothing is undone afterwards: returning from the
\* call, with the send succeeding or failing, leaves the sessions as they
\* are; so when the response to a successful login, renewal or logout could
\* not be sent, the created session is live, the replaced token is replaced
\* and the deleted session is deleted, although the peer received nothing.
C20_CommitBeforeSend ==
    /\ []((last.decoded /\ last.resp.ok) =>
            /\ last.call.status = "replied" /\ last.call.reply.kind = "Ok"
            /\ last.req.type \in {"Credentials", "Session"} =>
                  /\ last.resp.token \in sessions
                  /\ ~last.encoded => last.resp.token \notin known
            /\ last.req.type \in {"Session", "Logout"} =>
                  last.req.token \notin sessions
            /\ ~last.encoded => last.frames = 0)
    /\ [][\A c \in Conns :
            (last'.conn = c /\ last'.decoded /\ last'.call.op # "None") =>
               /\ call[c].status = "replied"
               /\ sessions' = sessions
               /\ superseded' = superseded /\ loggedOut' = loggedOut
       ]_vars

\* The response to a successful login could not be sent: the session is
\* live and no peer knows its token.
C20_Witness ==
    /\ last.req.type = "Credentials" /\ last.resp.ok
    /\ ~last.encoded /\ last.frames = 0
    /\ last.resp.token \in sessions /\ last.resp.token \notin known

====
